---- MODULE Spec2Model ----
(***************************************************************************)
(* Asset-Information-Extraction-System, src/main.py.                       *)
(*                                                                         *)
(* The extraction pipeline of the FastAPI backend: the request endpoint,   *)
(* AssetExtractionService.process_asset (search, bounded retry loop,       *)
(* fallback), WebSearchService (query builder, content aggregator) and     *)
(* LLMService.extract_asset_info (response normalisation, JSON slice,      *)
(* field validation).                                                      *)
(*                                                                         *)
(* Text handled by the program is modelled two ways:                       *)
(*  - queries, titles, snippets and the aggregated content are TLA+        *)
(*    strings (characters), so joining and truncation are computed;        *)
(*  - the completion provider's raw text is a sequence of lexical tokens   *)
(*    (prose words, whitespace, braces, "key: value" members), so that     *)
(*    find('{'), rfind('}'), the slice and json.loads are computed.        *)
(***************************************************************************)
EXTENDS Integers, Sequences, FiniteSets, TLC

VARIABLES
    pc,              \* position of the request: see Init and the actions
    asset_input,     \* AssetInput of the request
    lax_str,         \* whether the installed pydantic coerces numbers to str
    query,           \* built search query (build_search_query)
    search_calls,    \* number of search-provider calls made
    search_content,  \* aggregated content (process_asset local)
    attempt,         \* loop variable of the retry loop, 0 before the loop
    llm_calls,       \* number of completion-provider calls made
    sent,            \* set of search_content values sent to the provider
    response,        \* what the completion provider did on the call of the
                     \* current attempt (NoCompletion between attempts)
    search_out,      \* what the search provider did on the search call
    all_bad,         \* history: every completion call so far failed or gave
                     \* unusable output (BadOutput)
    prev_bad,        \* history: value of all_bad before the last call
    all_full,        \* history: every completion call so far returned a JSON
                     \* object holding all five keys (FullOutput)
    all_valid,       \* history: every completion call so far returned a valid
                     \* answer (ValidOutput)
    sleeps,          \* number of time.sleep calls made
    slept,           \* total time slept
    result,          \* value returned by process_asset (None before)
    raised,          \* whether an exception left process_asset
    status           \* HTTP status of the endpoint, 0 before it answers

vars == <<pc, asset_input, lax_str, query, search_calls, search_content,
          attempt, llm_calls, sent, response, search_out, all_bad, prev_bad,
          all_full, all_valid, sleeps, slept, result, raised, status>>

(***************************************************************************)
(* Program constants.                                                      *)
(***************************************************************************)
max_retries == 5

retry_delay == 2

MaxContent == 2500

max_results == 5

(***************************************************************************)
(* Bounds of the model.                                                    *)
(***************************************************************************)
\* largest number of hits a modelled search response holds
MaxHits == 2

(***************************************************************************)
(* Values.  A Python/JSON value is [t, v]: t is its type, v its text.      *)
(***************************************************************************)
None == [t |-> "none", v |-> ""]

Missing == [t |-> "missing", v |-> ""]

Str(s) == [t |-> "str", v |-> s]

Num(s) == [t |-> "num", v |-> s]

\* Python truthiness of a value: None, "" and 0 are falsy
Truthy(x) ==
    CASE x.t = "none" -> FALSE
      [] x.t = "missing" -> FALSE
      [] x.t = "str" -> x.v # ""
      [] x.t = "num" -> x.v # "0"
      [] OTHER -> TRUE

\* dict.get(key, default) for a key that may be absent
Get(x, default) == IF x.t = "missing" THEN default ELSE x

\* str(x) as an f-string renders it
PyStr(x) == IF x.t = "none" THEN "None" ELSE x.v

(***************************************************************************)
(* String helpers (Python str methods on TLA+ strings).                    *)
(***************************************************************************)
CharAt(s, i) == SubSeq(s, i, i)

IsSpace(c) == c \in {" ", "\n", "\t"}

RECURSIVE LStrip(_)
LStrip(s) ==
    IF Len(s) = 0 THEN s
    ELSE IF IsSpace(CharAt(s, 1)) THEN LStrip(SubSeq(s, 2, Len(s)))
    ELSE s

RECURSIVE RStrip(_)
RStrip(s) ==
    IF Len(s) = 0 THEN s
    ELSE IF IsSpace(CharAt(s, Len(s))) THEN RStrip(SubSeq(s, 1, Len(s) - 1))
    ELSE s

\* str.strip()
Strip(s) == RStrip(LStrip(s))

\* sep.join(parts) for a sequence of strings
RECURSIVE Join(_, _)
Join(sep, parts) ==
    IF Len(parts) = 0 THEN ""
    ELSE IF Len(parts) = 1 THEN parts[1]
    ELSE parts[1] \o sep \o Join(sep, Tail(parts))

\* s * n, computed by doubling
RECURSIVE Rep(_, _)
Rep(s, n) ==
    IF n = 0 THEN ""
    ELSE IF n % 2 = 1 THEN s \o Rep(s, n - 1)
    ELSE LET h == Rep(s, n \div 2) IN h \o h

(***************************************************************************)
(* WebSearchService.build_search_query                                     *)
(***************************************************************************)
\* faulty variant of QueryParts: the three values are appended unconditionally
QueryPartsDup(ai) ==
    <<ai.model_number.v, ai.asset_classification_name.v, ai.manufacturer.v>>

\* query_parts after the three conditional appends
QueryParts(ai) ==
    (IF Truthy(ai.model_number) THEN <<ai.model_number.v>> ELSE <<>>)
    \o (IF Truthy(ai.asset_classification_name)
        THEN <<ai.asset_classification_name.v>> ELSE <<>>)
    \o (IF Truthy(ai.manufacturer) THEN <<ai.manufacturer.v>> ELSE <<>>)

\* variant of build_search_query: the suffix joined as one more part
build_search_query_joined(ai) ==
    Join(" ", QueryParts(ai) \o <<"specifications">>)

build_search_query(ai) == Join(" ", QueryParts(ai)) \o " specifications"

(***************************************************************************)
(* WebSearchService.search_web                                             *)
(*                                                                         *)
(* The search provider either raises or returns a sequence of hits         *)
(* [title, body]; a hit's key may be absent (Missing).  The query and      *)
(* max_results are handed to the provider and do not change what the code  *)
(* does with its answer.                                                   *)
(***************************************************************************)
SearchRaises == [kind |-> "raise", hits |-> <<>>]

SearchReturns(hs) == [kind |-> "hits", hits |-> hs]

ToResult(h) ==
    [title |-> Get(h.title, Str("")), snippet |-> Get(h.body, Str(""))]

\* the except branch returns []
search_web(beh) ==
    IF beh.kind = "raise" THEN <<>>
    ELSE [i \in 1..Len(beh.hits) |-> ToResult(beh.hits[i])]

(***************************************************************************)
(* WebSearchService.search_and_extract                                     *)
(***************************************************************************)
\* content_parts: three lines per result, in the provider's order
RECURSIVE ContentParts(_)
ContentParts(results) ==
    IF Len(results) = 0 THEN <<>>
    ELSE <<"Title: " \o PyStr(results[1].title),
           "Content: " \o PyStr(results[1].snippet),
           "---">> \o ContentParts(Tail(results))

\* combined_content before truncation
Combined(results) == Join("\n", ContentParts(results))

\* faulty variant of Truncate: >= in place of >
TruncateOffByOne(s) ==
    IF Len(s) >= MaxContent THEN SubSeq(s, 1, MaxContent) \o "..." ELSE s

\* lines 102-103
Truncate(s) ==
    IF Len(s) > MaxContent THEN SubSeq(s, 1, MaxContent) \o "..." ELSE s

\* faulty variant of search_and_extract: results with nothing but empty
\* titles and snippets are taken for no results
search_and_extract_skip_empty(beh) ==
    LET results == search_web(beh)
    IN  IF \A i \in 1..Len(results) :
              PyStr(results[i].title) = "" /\ PyStr(results[i].snippet) = ""
        THEN ""
        ELSE Truncate(Combined(results))

search_and_extract(beh) ==
    LET results == search_web(beh)
    IN  IF Len(results) = 0 THEN "" ELSE Truncate(Combined(results))

(***************************************************************************)
(* AssetOutput: pydantic validates every field as a str.  A missing or     *)
(* None field is a ValidationError.  A number is coerced to its text by    *)
(* pydantic 1 and refused by pydantic 2; the repository pins neither, so   *)
(* lax says which one is installed.                                        *)
(***************************************************************************)
FieldAccepted(x, lax) == x.t = "str" \/ (x.t = "num" /\ lax)

AssetOutputValid(kw, lax) ==
    /\ FieldAccepted(kw.asset_classification, lax)
    /\ FieldAccepted(kw.manufacturer, lax)
    /\ FieldAccepted(kw.model_number, lax)
    /\ FieldAccepted(kw.product_line, lax)
    /\ FieldAccepted(kw.summary, lax)

\* faulty variant of FieldStored: the value is stored as given
FieldStoredRaw(x) == x

\* the value a validated field holds
FieldStored(x) == IF x.t = "num" THEN Str(x.v) ELSE x

AssetOutput(kw) ==
    [asset_classification |-> FieldStored(kw.asset_classification),
     manufacturer         |-> FieldStored(kw.manufacturer),
     model_number         |-> FieldStored(kw.model_number),
     product_line         |-> FieldStored(kw.product_line),
     summary              |-> FieldStored(kw.summary)]

(***************************************************************************)
(* LLMService.create_fallback_response                                     *)
(***************************************************************************)
\* faulty variant of FallbackFields: the model number is not copied
FallbackFieldsBlank(model_number) ==
    [asset_classification |-> Str("Generator Emissions/UREA/DPF Systems"),
     manufacturer         |-> Str(""),
     model_number         |-> Str(""),
     product_line         |-> Str(""),
     summary              |-> Str("")]

\* the keyword arguments of lines 249-253
FallbackFields(model_number) ==
    [asset_classification |-> Str("Generator Emissions/UREA/DPF Systems"),
     manufacturer         |-> Str(""),
     model_number         |-> model_number,
     product_line         |-> Str(""),
     summary              |-> Str("")]

create_fallback_response(model_number) ==
    AssetOutput(FallbackFields(model_number))

(***************************************************************************)
(* Raw completion text: a sequence of tokens.                              *)
(***************************************************************************)
LB == [c |-> "lbrace", key |-> "", val |-> None]

RB == [c |-> "rbrace", key |-> "", val |-> None]

WS == [c |-> "ws", key |-> "", val |-> None]

Word == [c |-> "word", key |-> "", val |-> None]

Member(k, x) == [c |-> "member", key |-> k, val |-> x]

\* str.strip() on a token sequence
RECURSIVE LStripToks(_)
LStripToks(t) ==
    IF Len(t) = 0 THEN t
    ELSE IF t[1].c = "ws" THEN LStripToks(Tail(t))
    ELSE t

RECURSIVE RStripToks(_)
RStripToks(t) ==
    IF Len(t) = 0 THEN t
    ELSE IF t[Len(t)].c = "ws" THEN RStripToks(SubSeq(t, 1, Len(t) - 1))
    ELSE t

StripToks(t) == RStripToks(LStripToks(t))

\* str.find: index of the first token of class c, 0 when there is none
Find(t, c) ==
    IF \E i \in 1..Len(t) : t[i].c = c
    THEN CHOOSE i \in 1..Len(t) :
            t[i].c = c /\ \A j \in 1..(i - 1) : t[j].c # c
    ELSE 0

\* str.rfind: index of the last token of class c, 0 when there is none
RFind(t, c) ==
    IF \E i \in 1..Len(t) : t[i].c = c
    THEN CHOOSE i \in 1..Len(t) :
            t[i].c = c /\ \A j \in (i + 1)..Len(t) : t[j].c # c
    ELSE 0

\* faulty variant of Slice: find('}') in place of rfind('}')
SliceFirstClose(t) == SubSeq(t, Find(t, "lbrace"), Find(t, "rbrace"))

\* response[start:end] with start = find('{'), end = rfind('}') + 1
Slice(t) == SubSeq(t, Find(t, "lbrace"), RFind(t, "rbrace"))

\* json.loads succeeds on "{" members "}" (whitespace between tokens allowed)
JsonOk(t) ==
    /\ Len(t) >= 2
    /\ t[1].c = "lbrace"
    /\ t[Len(t)].c = "rbrace"
    /\ \A i \in 2..(Len(t) - 1) : t[i].c \in {"member", "ws"}

\* parsed_response[k]: the last member with key k wins; Missing when absent
Lookup(t, k) ==
    IF \E i \in 1..Len(t) : t[i].c = "member" /\ t[i].key = k
    THEN t[CHOOSE i \in 1..Len(t) :
              /\ t[i].c = "member" /\ t[i].key = k
              /\ \A j \in (i + 1)..Len(t) :
                    ~(t[j].c = "member" /\ t[j].key = k)].val
    ELSE Missing

JsonLoads(t) ==
    [asset_classification |-> Lookup(t, "asset_classification"),
     manufacturer         |-> Lookup(t, "manufacturer"),
     model_number         |-> Lookup(t, "model_number"),
     product_line         |-> Lookup(t, "product_line"),
     summary              |-> Lookup(t, "summary")]

(***************************************************************************)
(* LLMService.extract_asset_info                                           *)
(*                                                                         *)
(* A completion call is [kind, text]:                                      *)
(*   "message"       an AIMessage whose content is the text                *)
(*   "seq"           a list/tuple whose first element is the text          *)
(*   "str"           the text itself                                       *)
(*   "content_list"  an AIMessage whose content is a list, not a str       *)
(*   "quota"         invoke raised a rate-limit/quota error                *)
(*   "fatal"         invoke raised any other error                         *)
(***************************************************************************)
\* lines 217-221: every required key is in parsed_response
HasAllFields(p) ==
    /\ p.asset_classification.t # "missing"
    /\ p.manufacturer.t # "missing"
    /\ p.model_number.t # "missing"
    /\ p.product_line.t # "missing"
    /\ p.summary.t # "missing"

\* faulty variant of CoerceNone: a None value is left as it is
CoerceNoneKeep(x) == x

\* faulty variant of CoerceNone: str(None) instead of the empty string
CoerceNoneText(x) == IF x.t = "none" THEN Str("None") ELSE x

\* lines 223-224
CoerceNone(x) == IF x.t = "none" THEN Str("") ELSE x

Coerced(p) ==
    [asset_classification |-> CoerceNone(p.asset_classification),
     manufacturer         |-> CoerceNone(p.manufacturer),
     model_number         |-> CoerceNone(p.model_number),
     product_line         |-> CoerceNone(p.product_line),
     summary              |-> CoerceNone(p.summary)]

\* faulty variant of RequiredNonEmpty: asset_classification is not tested
RequiredNonEmptyModelOnly(p) == Truthy(p.model_number)

\* lines 227-229
RequiredNonEmpty(p) == Truthy(p.model_number) /\ Truthy(p.asset_classification)

\* lines 200-234 on the normalised text; None stands for "return None"
ParseText(text, lax) ==
    LET s == StripToks(text)
    IN  IF Find(s, "lbrace") = 0 \/ Find(s, "rbrace") = 0 THEN None
        ELSE LET j == StripToks(Slice(s))
             IN  IF ~JsonOk(j) THEN None
                 ELSE LET p == JsonLoads(j)
                      IN  IF ~HasAllFields(p) THEN None
                          ELSE IF ~RequiredNonEmpty(Coerced(p)) THEN None
                          ELSE IF ~AssetOutputValid(Coerced(p), lax) THEN None
                          ELSE AssetOutput(Coerced(p))

Returned(x) == [exc |-> FALSE, value |-> x]

Raised == [exc |-> TRUE, value |-> None]

\* "fatal": line 184 re-raises, the handler of line 240 catches it and reads
\* the local `response`, which line 172 never bound: UnboundLocalError leaves
\* the function.  "content_list": .strip() on a list raises AttributeError,
\* handled at line 240 with `response` bound.
extract_asset_info(resp, lax) ==
    CASE resp.kind = "quota" -> Returned(None)
      [] resp.kind = "fatal" -> Raised
      [] resp.kind = "content_list" -> Returned(None)
      [] OTHER -> Returned(ParseText(resp.text, lax))

(***************************************************************************)
(* Inputs of the model.                                                    *)
(***************************************************************************)
AssetInput(m, c, f) ==
    [model_number |-> m, asset_classification_name |-> c, manufacturer |-> f]

\* requests the endpoint receives: model_number and asset_classification_name
\* are str (possibly empty or blank), manufacturer is Optional[str];
\* asset_classification_guid2 is read nowhere and is left out
Requests ==
    {AssetInput(m, c, f) :
        m \in {Str(""), Str(" "), Str("MRN85HD")},
        c \in {Str(""), Str("Generator (Marine)")},
        f \in {None, Str("Cummins")}}

\* dicts handed to build_search_query
QueryInputs ==
    {AssetInput(m, c, f) :
        m \in {Str(""), Str("MRN85HD"), Str("QSK 60"), Str("X")},
        c \in {Str(""), Str("Generator (Marine)"), Str("Excavator"), Str("Y")},
        f \in {None, Str(""), Str("Cummins"), Str("CAT"), Str("Z")}}

Hit(t, b) == [title |-> t, body |-> b]

\* search-provider behaviours of a request (long snippets: AggSearches)
Searches ==
    {SearchRaises,
     SearchReturns(<<>>),
     SearchReturns(<<Hit(Str("Cummins MRN85HD"), Str("85 kW marine generator"))>>),
     SearchReturns(<<Hit(Str(""), Missing), Hit(Missing, Str(""))>>)}

\* hits of the aggregator's inputs: snippet lengths around the cut
AggHits ==
    {Hit(t, b) :
        t \in {Missing, Str("T")},
        b \in {Missing, None, Str("abc")}
              \cup {Str(Rep("x", n)) :
                      n \in {MaxContent - 22, MaxContent - 21, MaxContent - 20,
                             MaxContent + 40}}}

RECURSIVE SeqsUpTo(_, _)
SeqsUpTo(S, n) ==
    IF n = 0 THEN {<<>>}
    ELSE LET shorter == SeqsUpTo(S, n - 1)
         IN  shorter \cup {Append(q, x) : q \in shorter, x \in S}

\* the provider is asked for at most max_results hits
AggSearches ==
    {SearchRaises}
    \cup {SearchReturns(hs) :
            hs \in {q \in SeqsUpTo(AggHits, MaxHits) : Len(q) <= max_results}}

\* the object of the well-formed answer
BaseObj ==
    [asset_classification |-> Str("Generator"),
     manufacturer         |-> Str("Cummins"),
     model_number         |-> Str("MRN85HD"),
     product_line         |-> Str(""),
     summary              |-> Str("A marine generator.")]

FieldSet ==
    {"asset_classification", "manufacturer", "model_number", "product_line",
     "summary"}

\* objects the completion provider may write: the base object with one key
\* absent, null, empty, numeric or different, or with two keys absent or null
Objects ==
    {BaseObj}
    \cup {[BaseObj EXCEPT ![k] = x] :
            k \in FieldSet,
            x \in {Missing, None, Str(""), Str("Other"), Num("7"), Num("0")}}
    \cup {[BaseObj EXCEPT ![k1] = x, ![k2] = y] :
            k1 \in FieldSet, k2 \in FieldSet, x \in {Missing, None},
            y \in {Missing, None}}

MemberOf(o, k) == IF o[k].t = "missing" THEN <<>> ELSE <<Member(k, o[k])>>

\* the JSON text of an object
Render(o) ==
    <<LB>> \o MemberOf(o, "asset_classification") \o MemberOf(o, "manufacturer")
    \o MemberOf(o, "model_number") \o MemberOf(o, "product_line")
    \o MemberOf(o, "summary") \o <<RB>>

\* JSON text that is an object with more than the five keys, with a repeated
\* key, and texts that are no JSON object
OddBodies ==
    {<<LB, Member("notes", Str("n"))>> \o Tail(Render(BaseObj)),
     <<LB, Member("summary", None)>> \o Tail(Render(BaseObj)),
     <<LB, Member("model_number", Str("MRN85HD")), Word, RB>>,
     <<Word>>,
     <<>>}

\* prose around the body: [pre, suf]
Wrappers ==
    {[pre |-> <<>>, suf |-> <<>>],
     [pre |-> <<WS, Word, WS>>, suf |-> <<WS, Word, WS>>],
     [pre |-> <<Word, LB, WS>>, suf |-> <<>>],
     [pre |-> <<>>, suf |-> <<WS, RB, Word>>],
     [pre |-> <<RB, Word>>, suf |-> <<Word, LB>>]}

Wrap(w, body) == w.pre \o body \o w.suf

Texts ==
    {Wrap(w, Render(o)) : w \in Wrappers, o \in Objects}
    \cup {Wrap(w, b) : w \in Wrappers, b \in OddBodies}

Completion(k, t) == [kind |-> k, text |-> t]

\* completion-provider behaviours of one call
Completions ==
    {Completion("message", t) : t \in Texts}
    \cup {Completion(k, Wrap(w, b)) :
            k \in {"seq", "str"}, w \in Wrappers,
            b \in {Render(BaseObj), Render([BaseObj EXCEPT !["summary"] = Missing]),
                   <<Word>>}}
    \cup {Completion(k, <<>>) : k \in {"content_list", "quota", "fatal"}}

NoCompletion == Completion("none", <<>>)

NoSearch == [kind |-> "none", hits |-> <<>>]

(***************************************************************************)
(* History classes of a completion call, in the words of the design: the   *)
(* object the text holds is what lies between its first "{" and its last   *)
(* "}".                                                                    *)
(***************************************************************************)
IsText(resp) == resp.kind \in {"message", "seq", "str"}

HoldsObject(resp) ==
    /\ IsText(resp)
    /\ Find(resp.text, "lbrace") # 0
    /\ Find(resp.text, "rbrace") # 0
    /\ JsonOk(Slice(resp.text))

ObjectOf(resp) == JsonLoads(Slice(resp.text))

\* well-formed JSON with all five fields
FullOutput(resp) ==
    /\ HoldsObject(resp)
    /\ \A k \in FieldSet : ObjectOf(resp)[k].t # "missing"

\* a JSON object with all five keys, every value a string or null, and
\* model_number and asset_classification non-empty strings
ValidOutput(resp) ==
    /\ FullOutput(resp)
    /\ \A k \in FieldSet : ObjectOf(resp)[k].t \in {"str", "none"}
    /\ ObjectOf(resp).model_number \notin {None, Str("")}
    /\ ObjectOf(resp).asset_classification \notin {None, Str("")}

\* the call failed, or its output is a ParseError or ValidationError
BadOutput(resp) ==
    \/ ~HoldsObject(resp)
    \/ ~FullOutput(resp)
    \/ ObjectOf(resp).model_number \in {None, Str("")}
    \/ ObjectOf(resp).asset_classification \in {None, Str("")}

(***************************************************************************)
(* The request: endpoint and AssetExtractionService.process_asset.         *)
(*                                                                         *)
(* pc: "request"    the endpoint has received asset_input                  *)
(*     "rejected"   the endpoint raised HTTPException(400)                 *)
(*     "searching"  process_asset is entered                               *)
(*     "extracting" top of a loop iteration, attempt is set                *)
(*     "sleeping"   the attempt failed and another one follows             *)
(*     "done"       process_asset returned result                          *)
(*     "raised"     an exception left process_asset                        *)
(*     "responded"  the endpoint answered (200 or 500)                     *)
(***************************************************************************)
InitRest ==
    /\ query = ""
    /\ search_calls = 0
    /\ search_content = ""
    /\ attempt = 0
    /\ llm_calls = 0
    /\ sent = {}
    /\ response = NoCompletion
    /\ all_bad = TRUE
    /\ prev_bad = TRUE
    /\ all_full = TRUE
    /\ all_valid = TRUE
    /\ sleeps = 0
    /\ slept = 0
    /\ result = None
    /\ raised = FALSE
    /\ status = 0

Init ==
    /\ pc = "request"
    /\ asset_input \in Requests
    /\ lax_str \in BOOLEAN
    /\ search_out = NoSearch
    /\ InitRest

\* faulty variant of RequiredPresent: the fields are compared without strip()
RequiredPresentNoStrip(ai) ==
    /\ ai.model_number.v # ""
    /\ ai.asset_classification_name.v # ""

\* faulty variant of RequiredPresent: the endpoint does not validate
RequiredPresentAlways(ai) == TRUE

\* lines 340-344: both required fields are non-blank
RequiredPresent(ai) ==
    /\ Strip(ai.model_number.v) # ""
    /\ Strip(ai.asset_classification_name.v) # ""

\* endpoint, lines 336-347: validation, then the call of process_asset
Validate ==
    /\ pc = "request"
    /\ IF RequiredPresent(asset_input)
       THEN pc' = "searching" /\ status' = status
       ELSE pc' = "rejected" /\ status' = 400
    /\ UNCHANGED <<asset_input, lax_str, query, search_calls, search_content,
                   attempt, llm_calls, sent, response, search_out, all_bad,
                   prev_bad, all_full, all_valid, sleeps, slept, result,
                   raised>>

\* faulty variant of NoContent: the empty-content test is missing
NoContentNever(content) == FALSE

\* line 273: `if not search_content`
NoContent(content) == content = ""

\* process_asset, lines 265-278: search, then fallback or loop entry
Search ==
    /\ pc = "searching"
    /\ \E beh \in Searches :
        LET content == search_and_extract(beh)
        IN  /\ search_out' = beh
            /\ query' = build_search_query(asset_input)
            /\ search_calls' = search_calls + 1
            /\ search_content' = content
            /\ IF NoContent(content)
               THEN /\ result' = create_fallback_response(asset_input.model_number)
                    /\ pc' = "done"
                    /\ attempt' = attempt
               ELSE /\ result' = result
                    /\ pc' = "extracting"
                    /\ attempt' = 1
    /\ UNCHANGED <<asset_input, lax_str, llm_calls, sent, response, all_bad,
                   prev_bad, all_full, all_valid, sleeps, slept, raised,
                   status>>

\* faulty variant of Caught: no except clause around the call
CaughtNever(o) == FALSE

\* line 290: `except Exception` catches whatever extract_asset_info raises
Caught(o) == TRUE

\* faulty variants of Succeeded: None taken for a result; the test inverted
SucceededAlways(o) == ~o.exc

SucceededInverted(o) == ~o.exc /\ o.value = None

\* line 284: `if result is not None`
Succeeded(o) == ~o.exc /\ o.value # None

\* faulty variant of LastAttempt: range(1, max_retries + 2)
LastAttemptLate(a) == a >= max_retries + 1

\* faulty variant of LastAttempt: range(1, max_retries)
LastAttemptEarly(a) == a >= max_retries - 1

\* the loop ends after attempt max_retries (range(1, max_retries + 1))
LastAttempt(a) == a >= max_retries

\* process_asset, lines 279-292 and 298-300: one loop iteration, and the
\* fallback when it was the last one
Attempt ==
    /\ pc = "extracting"
    /\ \E resp \in Completions :
        LET o == extract_asset_info(resp, lax_str)
        IN  /\ response' = resp
            /\ llm_calls' = llm_calls + 1
            /\ sent' = sent \cup {search_content}
            /\ prev_bad' = all_bad
            /\ all_bad' = (all_bad /\ BadOutput(resp))
            /\ all_full' = (all_full /\ FullOutput(resp))
            /\ all_valid' = (all_valid /\ ValidOutput(resp))
            /\ IF Succeeded(o)
               THEN result' = o.value /\ pc' = "done" /\ raised' = raised
               ELSE IF o.exc /\ ~Caught(o)
               THEN result' = result /\ pc' = "raised" /\ raised' = TRUE
               ELSE IF LastAttempt(attempt)
               THEN /\ result' = create_fallback_response(asset_input.model_number)
                    /\ pc' = "done"
                    /\ raised' = raised
               ELSE result' = result /\ pc' = "sleeping" /\ raised' = raised
    /\ UNCHANGED <<asset_input, lax_str, query, search_calls, search_content,
                   search_out, attempt, sleeps, slept, status>>

\* process_asset, lines 294-296, and the next value of the loop variable; the
\* local `response` of the finished extract_asset_info call is gone
Sleep ==
    /\ pc = "sleeping"
    /\ sleeps' = sleeps + 1
    /\ slept' = slept + retry_delay
    /\ attempt' = attempt + 1
    /\ pc' = "extracting"
    /\ response' = NoCompletion
    /\ UNCHANGED <<asset_input, lax_str, query, search_calls, search_content,
                   search_out, llm_calls, sent, all_bad, prev_bad, all_full,
                   all_valid, result, raised, status>>

\* endpoint, lines 349-356: 200 with the record, 500 when process_asset raised
Respond ==
    /\ pc \in {"done", "raised"}
    /\ status' = IF raised THEN 500 ELSE 200
    /\ pc' = "responded"
    /\ UNCHANGED <<asset_input, lax_str, query, search_calls, search_content,
                   search_out, attempt, llm_calls, sent, response, all_bad,
                   prev_bad, all_full, all_valid, sleeps, slept, result,
                   raised>>

Next == Validate \/ Search \/ Attempt \/ Sleep \/ Respond

Spec == Init /\ [][Next]_vars

\* Every step of the request returns: the provider calls return or raise
\* (DDGS.text, llm.invoke), time.sleep returns after retry_delay, and the
\* endpoint runs to its response; so a step that can be taken is taken.
SpecFair == Spec /\ WF_vars(Next)

(***************************************************************************)
(* build_search_query on its own: the inputs are drawn from QueryInputs.   *)
(***************************************************************************)
InitQuery ==
    /\ pc = "query"
    /\ asset_input \in QueryInputs
    /\ lax_str = FALSE
    /\ search_out = NoSearch
    /\ InitRest

BuildQuery ==
    /\ pc = "query"
    /\ query' = build_search_query(asset_input)
    /\ pc' = "query_done"
    /\ UNCHANGED <<asset_input, lax_str, search_calls, search_content,
                   search_out, attempt, llm_calls, sent, response, all_bad,
                   prev_bad, all_full, all_valid, sleeps, slept, result,
                   raised, status>>

NextQuery == BuildQuery

SpecQuery == InitQuery /\ [][NextQuery]_vars

(***************************************************************************)
(* search_and_extract on its own: the search provider's behaviour is drawn *)
(* from AggSearches.                                                       *)
(***************************************************************************)
InitAgg ==
    /\ pc = "agg"
    /\ asset_input = AssetInput(Str("MRN85HD"), Str("Generator (Marine)"), None)
    /\ lax_str = FALSE
    /\ search_out \in AggSearches
    /\ InitRest

Aggregate ==
    /\ pc = "agg"
    /\ query' = build_search_query(asset_input)
    /\ search_calls' = search_calls + 1
    /\ search_content' = search_and_extract(search_out)
    /\ pc' = "agg_done"
    /\ UNCHANGED <<asset_input, lax_str, search_out, attempt, llm_calls, sent,
                   response, all_bad, prev_bad, all_full, all_valid, sleeps,
                   slept, result, raised, status>>

NextAgg == Aggregate

SpecAgg == InitAgg /\ [][NextAgg]_vars

(***************************************************************************)
(* Properties.                                                             *)
(***************************************************************************)
Returned200 == pc \in {"done", "responded"}

\* a record with the five fields, each a string
WellFormedRecord(r) ==
    /\ DOMAIN r = FieldSet
    /\ \A k \in FieldSet : r[k].t = "str"

\* the fallback record of the request, written out
ExpectedFallback ==
    [asset_classification |-> Str("Generator Emissions/UREA/DPF Systems"),
     manufacturer         |-> Str(""),
     model_number         |-> asset_input.model_number,
     product_line         |-> Str(""),
     summary              |-> Str("")]

\* the object with every null replaced by the empty string
NullsEmptied(o) == [k \in FieldSet |-> IF o[k] = None THEN Str("") ELSE o[k]]

EmptySearch == search_out.kind = "raise" \/ search_out.hits = <<>>

Called == response # NoCompletion

\* C1: whatever the search provider and the completion provider do, the
\* record process_asset returns has the five fields asset_classification,
\* manufacturer, model_number, product_line and summary, each a string, none
\* null and none missing.
C1_RecordAlwaysFiveStrings == Returned200 => WellFormedRecord(result)

\* C1 witness: a completion whose summary is a number (a non-string value)
\* was turned into a returned record of strings
C1_Witness ==
    /\ pc = "done"
    /\ Called
    /\ FullOutput(response)
    /\ ObjectOf(response).summary = Num("7")
    /\ result.summary = Str("7")

\* C2: when the search provider raises or returns no result, process_asset
\* makes no completion call, starts no attempt, does not sleep, and returns
\* the fallback record of the input model_number.
C2_NoSearchResultsNoCompletion ==
    (search_calls = 1 /\ EmptySearch) =>
        /\ Returned200
        /\ llm_calls = 0
        /\ attempt = 0
        /\ sleeps = 0
        /\ search_content = ""
        /\ result = ExpectedFallback

\* C2 witness: the search provider raised and process_asset returned
C2_Witness == pc = "done" /\ search_out = SearchRaises /\ search_calls = 1

\* C3 as stated: with non-empty search content, if every completion is
\* well-formed JSON with all five fields, exactly one completion call is made.
C3_Original_FiveFieldsOneCall ==
    (Returned200 /\ search_content # "" /\ all_full) => llm_calls = 1

\* C3 amended: with non-empty search content, if every completion is
\* well-formed JSON with all five fields, every value a string or null and
\* model_number and asset_classification non-empty, exactly one completion
\* call is made and process_asset returns after it.
C3_ValidFirstOneCall ==
    (llm_calls >= 1 /\ all_valid) =>
        /\ llm_calls = 1
        /\ attempt = 1
        /\ sleeps = 0
        /\ Returned200

\* C3 witness: one valid completion, one call, returned
C3_Witness ==
    /\ pc = "done"
    /\ search_content # ""
    /\ llm_calls = 1
    /\ all_valid
    /\ ValidOutput(response)

\* C4: when completions 1..k-1 are malformed or invalid and completion k is
\* valid (1 <= k <= max_retries), process_asset has made exactly k calls when
\* it returns, and returns the record of the k-th completion.
C4_ValidOnAttemptK ==
    (Called /\ prev_bad /\ ValidOutput(response)) =>
        /\ Returned200
        /\ llm_calls = attempt
        /\ attempt \in 1..max_retries
        /\ sleeps = attempt - 1
        /\ result = NullsEmptied(ObjectOf(response))
        /\ result # ExpectedFallback

\* C4 witness: the valid completion came on the last attempt
C4_Witness ==
    /\ pc = "done"
    /\ prev_bad
    /\ ValidOutput(response)
    /\ llm_calls = max_retries
    /\ result = NullsEmptied(ObjectOf(response))

\* C5: with non-empty search content, when every completion call fails or
\* returns invalid output, process_asset makes exactly max_retries calls and
\* returns the fallback record.
C5_AllBadFallback ==
    (Returned200 /\ search_content # "" /\ all_bad) =>
        /\ llm_calls = max_retries
        /\ max_retries = 5
        /\ result = ExpectedFallback

\* C5 witness: five bad completions, then the fallback
C5_Witness ==
    /\ pc = "done"
    /\ search_content # ""
    /\ all_bad
    /\ llm_calls = 5
    /\ result = ExpectedFallback

\* C6: no exception leaves process_asset: after a search failure, a parse or
\* validation failure, a recoverable or a fatal provider error it returns a
\* well-formed record, the extracted one or the fallback.
C6_NeverRaises ==
    /\ ~raised
    /\ pc # "raised"
    /\ status # 500
    /\ pc = "done" =>
          /\ DOMAIN result = FieldSet
          /\ \/ result = ExpectedFallback
             \/ Called /\ FullOutput(response)

\* C6 witness: a fatal provider error on an attempt, and a returned record
C6_Witness ==
    /\ pc = "done"
    /\ response.kind = "fatal"
    /\ ~raised
    /\ result = ExpectedFallback

\* C9: a completion whose object lacks one of the five keys is rejected
\* whole: no record is made from it; the attempt counts as failed, so
\* process_asset retries, or returns the fallback after the last attempt.
C9_MissingKeyRejected ==
    (Called /\ HoldsObject(response) /\ ~FullOutput(response)) =>
        \/ /\ attempt < max_retries
           /\ pc = "sleeping"
           /\ result = None
        \/ /\ attempt = max_retries
           /\ Returned200
           /\ result = ExpectedFallback

\* C9 witness: the summary key is missing, the others are there, and a retry
\* follows
C9_Witness ==
    /\ pc = "sleeping"
    /\ HoldsObject(response)
    /\ ObjectOf(response).summary = Missing
    /\ \A k \in FieldSet \ {"summary"} : ObjectOf(response)[k].t = "str"
    /\ result = None

\* a and b joined by one space, or the non-empty one of them alone
Sp(a, b) == IF a = "" THEN b ELSE IF b = "" THEN a ELSE a \o " " \o b

TextOf(x) == IF x.t = "str" THEN x.v ELSE ""

HasDoubleSpace(s) ==
    \E i \in 1..(Len(s) - 1) : SubSeq(s, i, i + 1) = "  "

\* C7: build_search_query returns the non-empty values of model_number,
\* asset_classification_name and manufacturer, in that order, separated by
\* single spaces, then a space and "specifications"; an empty or absent
\* manufacturer adds nothing, and the example of the design gives
\* "MRN85HD Generator (Marine) Cummins specifications".
C7_QueryJoinsNonEmpty ==
    pc = "query_done" =>
        LET m == TextOf(asset_input.model_number)
            c == TextOf(asset_input.asset_classification_name)
            f == TextOf(asset_input.manufacturer)
        IN  /\ query = Sp(Sp(m, c), f) \o " specifications"
            /\ ~HasDoubleSpace(query)
            /\ (f = "" /\ m # "" /\ c # "") =>
                    query = m \o " " \o c \o " specifications"
            /\ asset_input = AssetInput(Str("MRN85HD"),
                                        Str("Generator (Marine)"),
                                        Str("Cummins")) =>
                    query = "MRN85HD Generator (Marine) Cummins specifications"

\* C7 witness: the query of the design's example
C7_Witness ==
    /\ pc = "query_done"
    /\ asset_input.model_number = Str("MRN85HD")
    /\ asset_input.asset_classification_name = Str("Generator (Marine)")
    /\ asset_input.manufacturer = Str("Cummins")
    /\ query = "MRN85HD Generator (Marine) Cummins specifications"

HasClass(t, c) == \E i \in 1..Len(t) : t[i].c = c

\* prose with no "{" before the object and no "}" after it
CleanWrappers ==
    {w \in Wrappers : ~HasClass(w.pre, "lbrace") /\ ~HasClass(w.suf, "rbrace")}

NonEmpty(x) == x.t \notin {"missing", "none"} /\ x.v # ""

\* objects with the five keys and non-empty model_number, asset_classification
CompleteObjects ==
    {o \in Objects :
        /\ \A k \in FieldSet : o[k].t # "missing"
        /\ NonEmpty(o.model_number)
        /\ NonEmpty(o.asset_classification)}

\* C8 as stated: when the raw text is one JSON object with the five keys and
\* non-empty model_number and asset_classification inside prose with no "{"
\* before it and no "}" after it, extract_asset_info returns a record whose
\* five fields equal the object's values.
C8_Original_EmbeddedObjectExact ==
    \A w \in CleanWrappers, o \in CompleteObjects :
        (Called /\ IsText(response) /\ response.text = Wrap(w, Render(o))) =>
            /\ Returned200
            /\ DOMAIN result = FieldSet
            /\ \A k \in FieldSet : result[k] = o[k]

\* C8 amended: as C8 for an object whose values are strings or null; the
\* record's fields equal the object's values with every null replaced by the
\* empty string.
C8_EmbeddedObjectNullsEmptied ==
    \A w \in CleanWrappers, o \in CompleteObjects :
        (/\ Called
         /\ IsText(response)
         /\ response.text = Wrap(w, Render(o))
         /\ \A k \in FieldSet : o[k].t \in {"str", "none"}) =>
            /\ Returned200
            /\ WellFormedRecord(result)
            /\ \A k \in FieldSet :
                  result[k] = IF o[k] = None THEN Str("") ELSE o[k]

\* C8 witness: the object stands between a "}" and a "{" of the prose, one of
\* its values is null, and the record is returned
C8_Witness ==
    /\ pc = "done"
    /\ response.kind = "message"
    /\ response.text =
          Wrap([pre |-> <<RB, Word>>, suf |-> <<Word, LB>>],
               Render([BaseObj EXCEPT !["manufacturer"] = None]))
    /\ result = [BaseObj EXCEPT !["manufacturer"] = Str("")]

\* C10: search_and_extract returns joined content longer than 2500
\* characters as its first 2500 characters followed by "...", and joined
\* content of at most 2500 characters unchanged, without the marker.
C10_TruncatedWithMarker ==
    (pc = "agg_done" /\ Len(search_web(search_out)) > 0) =>
        LET joined == Combined(search_web(search_out))
        IN  /\ MaxContent = 2500
            /\ Len(joined) > 2500 =>
                  /\ Len(search_content) = 2503
                  /\ SubSeq(search_content, 1, 2500) = SubSeq(joined, 1, 2500)
                  /\ SubSeq(search_content, 2501, 2503) = "..."
            /\ Len(joined) <= 2500 => search_content = joined

\* C10 witness: joined content of 2501 characters was cut to 2500 and marked
C10_Witness ==
    /\ pc = "agg_done"
    /\ Len(Combined(search_web(search_out))) = 2501
    /\ Len(search_content) = 2503
    /\ SubSeq(search_content, 2501, 2503) = "..."

(***************************************************************************)
(* create_fallback_response on its own: the request is drawn from          *)
(* FallbackInputs; building the AssetOutput raises when pydantic refuses   *)
(* a field.                                                                *)
(***************************************************************************)
FallbackInputs ==
    {AssetInput(m, c, f) :
        m \in {Str("MRN85HD"), Str("QSK 60"), Str("X"), Str("336")},
        c \in {Str("Generator (Marine)"), Str("Excavator"), Str("Y"),
               Str("Generator Emissions/UREA/DPF Systems")},
        f \in {None, Str(""), Str("Cummins"), Str("CAT")}}

InitFallback ==
    /\ pc = "fallback"
    /\ asset_input \in FallbackInputs
    /\ lax_str \in BOOLEAN
    /\ search_out = NoSearch
    /\ InitRest

MakeFallback ==
    /\ pc = "fallback"
    /\ IF AssetOutputValid(FallbackFields(asset_input.model_number), lax_str)
       THEN /\ result' = create_fallback_response(asset_input.model_number)
            /\ raised' = raised
       ELSE /\ result' = result
            /\ raised' = TRUE
    /\ pc' = "fallback_done"
    /\ UNCHANGED <<asset_input, lax_str, query, search_calls, search_content,
                   search_out, attempt, llm_calls, sent, response, all_bad,
                   prev_bad, all_full, all_valid, sleeps, slept, status>>

NextFallback == MakeFallback

SpecFallback == InitFallback /\ [][NextFallback]_vars

\* C11: the fallback record depends on the input model_number alone:
\* asset_classification is the fixed default category whatever the input
\* classification name is, model_number is the input model_number,
\* manufacturer, product_line and summary are empty strings, and building
\* it does not raise.
C11_FallbackOfModelNumber ==
    pc = "fallback_done" =>
        /\ ~raised
        /\ DOMAIN result = FieldSet
        /\ result.asset_classification =
              Str("Generator Emissions/UREA/DPF Systems")
        /\ result.model_number = asset_input.model_number
        /\ result.manufacturer = Str("")
        /\ result.product_line = Str("")
        /\ result.summary = Str("")

\* C11 witness: a fallback record built for a request whose classification
\* name and manufacturer are not the record's
C11_Witness ==
    /\ pc = "fallback_done"
    /\ asset_input.asset_classification_name = Str("Excavator")
    /\ asset_input.manufacturer = Str("CAT")
    /\ result.asset_classification = Str("Generator Emissions/UREA/DPF Systems")
    /\ result.model_number = Str("336")
    /\ result.manufacturer = Str("")

\* a string of whitespace characters only, the empty string included
Blank(s) == \A i \in 1..Len(s) : IsSpace(CharAt(s, i))

BlankRequest ==
    \/ Blank(asset_input.model_number.v)
    \/ Blank(asset_input.asset_classification_name.v)

\* C12: a request whose model_number or asset_classification_name is empty
\* or whitespace-only is answered with HTTP 400 and nothing else happens:
\* no search call, no completion call, no record; and HTTP 400 is given to
\* such requests only, an extraction failure being answered with 200.
C12_BlankRequestRejected ==
    /\ (pc # "request" /\ BlankRequest) =>
           /\ pc = "rejected"
           /\ status = 400
           /\ search_calls = 0
           /\ llm_calls = 0
           /\ result = None
    /\ (status = 400 \/ pc = "rejected") => BlankRequest
    /\ (Returned200 /\ Called /\ BadOutput(response)) => status # 400

\* C12 witness: a whitespace-only model_number with a classification name
C12_Witness ==
    /\ pc = "rejected"
    /\ status = 400
    /\ asset_input.model_number = Str(" ")
    /\ asset_input.asset_classification_name = Str("Generator (Marine)")

ProviderError == Called /\ response.kind \in {"quota", "fatal"}

\* C13: a completion call that fails with a provider error, quota or not,
\* uses up one attempt and does not end the loop: the process does not
\* raise, the calls made equal the attempt number, before the last attempt
\* the process goes to sleep and from there starts attempt i + 1, which
\* makes the next call; on the last attempt the fallback is returned.
C13_ProviderErrorOneSlot ==
    /\ [](ProviderError =>
             /\ ~raised
             /\ llm_calls = attempt
             /\ attempt < max_retries => pc = "sleeping" /\ result = None
             /\ attempt = max_retries =>
                    Returned200 /\ result = ExpectedFallback)
    /\ [][(ProviderError /\ pc = "sleeping") =>
             /\ pc' = "extracting"
             /\ attempt' = attempt + 1
             /\ llm_calls' = llm_calls]_vars
    /\ [][(pc = "extracting" /\ attempt > 1) =>
             /\ llm_calls' = attempt
             /\ attempt' = attempt]_vars

\* C13 witness: a fatal provider error on attempt 4 of 5, the process waiting
\* to make attempt 5
C13_Witness ==
    /\ pc = "sleeping"
    /\ response.kind = "fatal"
    /\ attempt = max_retries - 1
    /\ llm_calls = max_retries - 1

\* C14: process_asset sleeps retry_delay after failed attempt i exactly when
\* i < max_retries, between attempt i and attempt i + 1: attempt i starts
\* after i - 1 sleeps, so none precedes attempt 1; a record returned by
\* attempt k was preceded by k - 1 sleeps, so none follows a success or the
\* last failure; the no-content path never sleeps; and there are at most
\* max_retries - 1 = 4 sleeps.
C14_SleepBetweenAttempts ==
    /\ sleeps <= max_retries - 1
    /\ sleeps <= 4
    /\ slept = sleeps * retry_delay
    /\ pc = "extracting" => sleeps = attempt - 1 /\ llm_calls = attempt - 1
    /\ pc = "sleeping" =>
           sleeps = attempt - 1 /\ llm_calls = attempt /\ attempt < max_retries
    /\ (Called /\ BadOutput(response)) =>
           (attempt < max_retries <=> pc = "sleeping")
    /\ (Returned200 /\ Called) => sleeps = llm_calls - 1
    /\ (Returned200 /\ ~Called) => sleeps = 0
    /\ search_content = "" => sleeps = 0

\* C14 witness: five failed attempts, four sleeps of retry_delay between them
C14_Witness ==
    /\ pc = "done"
    /\ BadOutput(response)
    /\ llm_calls = max_retries
    /\ sleeps = max_retries - 1
    /\ slept = 8

NullOrEmpty(x) == x \in {None, Str("")}

\* C15: a completion holding a JSON object with all five keys whose
\* model_number or asset_classification is null or the empty string is not
\* accepted, whatever the other values are: the attempt fails, so the
\* process sleeps before the next attempt or, on the last attempt, returns
\* the fallback record.
C15_EmptyRequiredRejected ==
    (/\ Called
     /\ FullOutput(response)
     /\ \/ NullOrEmpty(ObjectOf(response).model_number)
        \/ NullOrEmpty(ObjectOf(response).asset_classification)) =>
        /\ ~Succeeded(extract_asset_info(response, lax_str))
        /\ attempt < max_retries => pc = "sleeping" /\ result = None
        /\ attempt = max_retries => Returned200 /\ result = ExpectedFallback

\* C15 witness: all five keys, asset_classification null, the rest filled
C15_Witness ==
    /\ pc = "sleeping"
    /\ FullOutput(response)
    /\ ObjectOf(response).asset_classification = None
    /\ ObjectOf(response).model_number = Str("MRN85HD")
    /\ ObjectOf(response).manufacturer = Str("Cummins")
    /\ ObjectOf(response).product_line.t = "str"
    /\ ObjectOf(response).summary = Str("A marine generator.")

OptionalFields == {"manufacturer", "product_line", "summary"}

\* C16: a completion that is valid except that manufacturer, product_line or
\* summary are null is accepted: the record returned has the empty string in
\* each null field and the completion's value in every other field.
C16_NullOptionalEmptied ==
    (/\ Called
     /\ ValidOutput(response)
     /\ \E k \in OptionalFields : ObjectOf(response)[k] = None) =>
        /\ Returned200
        /\ llm_calls = attempt
        /\ \A k \in FieldSet :
              IF ObjectOf(response)[k] = None
              THEN k \in OptionalFields /\ result[k] = Str("")
              ELSE result[k] = ObjectOf(response)[k]

\* C16 witness: a null manufacturer and a null summary in a valid completion
C16_Witness ==
    /\ pc = "done"
    /\ ValidOutput(response)
    /\ ObjectOf(response).manufacturer = None
    /\ ObjectOf(response).summary = None
    /\ ObjectOf(response).product_line # None
    /\ result.manufacturer = Str("")
    /\ result.summary = Str("")
    /\ result.product_line = ObjectOf(response).product_line

\* C17: with every provider call returning or raising, an invocation of
\* process_asset ends: from its start it reaches the state where it has
\* returned; it has then made one search call, at most max_retries
\* completion calls and at most max_retries - 1 sleeps and holds one record,
\* and after that no provider is called and the record does not change.
C17_ProcessTerminates ==
    /\ (pc = "searching") ~> Returned200
    /\ [](/\ search_calls <= 1
          /\ llm_calls <= max_retries
          /\ sleeps <= max_retries - 1)
    /\ [](Returned200 =>
             /\ search_calls = 1
             /\ WellFormedRecord(result))
    /\ [](pc \in {"searching", "extracting", "sleeping"} => result = None)
    /\ [][Returned200 =>
             /\ search_calls' = search_calls
             /\ llm_calls' = llm_calls
             /\ sleeps' = sleeps
             /\ result' = result
             /\ Returned200']_vars

\* C17 witness: the longest run, one search, max_retries completion calls
\* and max_retries - 1 sleeps, answered
C17_Witness ==
    /\ pc = "responded"
    /\ status = 200
    /\ search_calls = 1
    /\ llm_calls = max_retries
    /\ sleeps = max_retries - 1
    /\ WellFormedRecord(result)

\* C20: every record returned for a request that passed validation has a
\* non-empty model_number and a non-empty asset_classification, whether it
\* comes from a completion or is the fallback record.
C20_RequiredFieldsNonEmpty ==
    Returned200 =>
        /\ RequiredPresent(asset_input)
        /\ result.model_number.t = "str"
        /\ result.model_number.v # ""
        /\ result.asset_classification.t = "str"
        /\ result.asset_classification.v # ""

\* C20 witness: a fallback record after max_retries completions whose
\* model_number was null or empty
C20_Witness ==
    /\ pc = "responded"
    /\ status = 200
    /\ llm_calls = max_retries
    /\ FullOutput(response)
    /\ NullOrEmpty(ObjectOf(response).model_number)
    /\ result.model_number = asset_input.model_number
    /\ result.model_number.v # ""
    /\ result.asset_classification.v # ""

AllEmptyInput ==
    /\ asset_input.model_number = Str("")
    /\ asset_input.asset_classification_name = Str("")
    /\ asset_input.manufacturer \in {None, Str("")}

\* C19 as stated: for the input with every field empty the query is exactly
\* "specifications", with no leading space.
C19_Original_BareSuffix ==
    (pc = "query_done" /\ AllEmptyInput) => query = "specifications"

\* C19: for the input with every field empty the query is the suffix with
\* its separating space, " specifications": 15 characters, the first a space.
C19_AllEmptyKeepsSeparator ==
    (pc = "query_done" /\ AllEmptyInput) =>
        /\ query = " specifications"
        /\ Len(query) = 15
        /\ CharAt(query, 1) = " "

\* C19 witness: the query built for model_number "", classification name ""
\* and manufacturer None
C19_Witness ==
    /\ pc = "query_done"
    /\ AllEmptyInput
    /\ asset_input.manufacturer = None
    /\ query = " specifications"

(***************************************************************************)
(* Concurrent requests: NReq invocations of process_asset on the one       *)
(* asset_service, their steps interleaved.  Here pc, asset_input,          *)
(* search_out, search_calls, search_content, attempt, llm_calls, sent,     *)
(* response, sleeps and result hold one value per request.  The service    *)
(* object the invocations share has no attribute they assign: the search   *)
(* content and the loop variable are locals of each invocation's frame.    *)
(***************************************************************************)
NReq == 2

Reqs == 1..NReq

ConcModel(r) == Str(Rep("M", r))

ConcInput(r) == AssetInput(ConcModel(r), Str("Generator (Marine)"), None)

\* what the search provider does for request r
ConcSearches(r) ==
    {SearchRaises,
     SearchReturns(<<Hit(ConcModel(r), Str("85 kW marine generator"))>>)}

\* what the completion provider does on a call of request r
ConcCompletions(r) ==
    {Completion("message",
                Render([BaseObj EXCEPT !["model_number"] = ConcModel(r)])),
     Completion("message", <<Word>>),
     Completion("fatal", <<>>)}

\* faulty variant of LocalSlot: the values kept on the shared service object
LocalSlotShared(r) == 1

\* lines 270 and 278: search_content and attempt are local variables, one
\* of each per invocation
LocalSlot(r) == r

InitConc ==
    /\ pc = [r \in Reqs |-> "searching"]
    /\ asset_input = [r \in Reqs |-> ConcInput(r)]
    /\ lax_str = FALSE
    /\ search_out = [r \in Reqs |-> NoSearch]
    /\ search_calls = [r \in Reqs |-> 0]
    /\ search_content = [r \in Reqs |-> ""]
    /\ attempt = [r \in Reqs |-> 0]
    /\ llm_calls = [r \in Reqs |-> 0]
    /\ sent = [r \in Reqs |-> {}]
    /\ response = [r \in Reqs |-> NoCompletion]
    /\ sleeps = [r \in Reqs |-> 0]
    /\ result = [r \in Reqs |-> None]
    /\ query = ""
    /\ all_bad = TRUE
    /\ prev_bad = TRUE
    /\ all_full = TRUE
    /\ all_valid = TRUE
    /\ slept = 0
    /\ raised = FALSE
    /\ status = 0

\* lines 265-278 of invocation r
ConcSearch(r) ==
    /\ pc[r] = "searching"
    /\ \E beh \in ConcSearches(r) :
        LET content == search_and_extract(beh)
        IN  /\ search_out' = [search_out EXCEPT ![r] = beh]
            /\ search_calls' = [search_calls EXCEPT ![r] = @ + 1]
            /\ search_content' =
                  [search_content EXCEPT ![LocalSlot(r)] = content]
            /\ IF NoContent(content)
               THEN /\ result' = [result EXCEPT ![r] =
                          create_fallback_response(asset_input[r].model_number)]
                    /\ pc' = [pc EXCEPT ![r] = "done"]
                    /\ attempt' = attempt
               ELSE /\ result' = result
                    /\ pc' = [pc EXCEPT ![r] = "extracting"]
                    /\ attempt' = [attempt EXCEPT ![LocalSlot(r)] = 1]
    /\ UNCHANGED <<asset_input, lax_str, query, llm_calls, sent, response,
                   all_bad, prev_bad, all_full, all_valid, sleeps, slept,
                   raised, status>>

\* lines 279-292 and 298-300 of invocation r
ConcAttempt(r) ==
    /\ pc[r] = "extracting"
    /\ \E resp \in ConcCompletions(r) :
        LET o == extract_asset_info(resp, lax_str)
        IN  /\ response' = [response EXCEPT ![r] = resp]
            /\ llm_calls' = [llm_calls EXCEPT ![r] = @ + 1]
            /\ sent' = [sent EXCEPT ![r] = @ \cup {search_content[LocalSlot(r)]}]
            /\ IF Succeeded(o)
               THEN /\ result' = [result EXCEPT ![r] = o.value]
                    /\ pc' = [pc EXCEPT ![r] = "done"]
                    /\ raised' = raised
               ELSE IF o.exc /\ ~Caught(o)
               THEN /\ result' = result
                    /\ pc' = [pc EXCEPT ![r] = "raised"]
                    /\ raised' = TRUE
               ELSE IF LastAttempt(attempt[LocalSlot(r)])
               THEN /\ result' = [result EXCEPT ![r] =
                          create_fallback_response(asset_input[r].model_number)]
                    /\ pc' = [pc EXCEPT ![r] = "done"]
                    /\ raised' = raised
               ELSE /\ result' = result
                    /\ pc' = [pc EXCEPT ![r] = "sleeping"]
                    /\ raised' = raised
    /\ UNCHANGED <<asset_input, lax_str, query, search_calls, search_content,
                   search_out, attempt, all_bad, prev_bad, all_full, all_valid,
                   sleeps, slept, status>>

\* lines 294-296 of invocation r, and the next value of its loop variable
ConcSleep(r) ==
    /\ pc[r] = "sleeping"
    /\ sleeps' = [sleeps EXCEPT ![r] = @ + 1]
    /\ attempt' = [attempt EXCEPT ![LocalSlot(r)] = @ + 1]
    /\ pc' = [pc EXCEPT ![r] = "extracting"]
    /\ response' = [response EXCEPT ![r] = NoCompletion]
    /\ UNCHANGED <<asset_input, lax_str, query, search_calls, search_content,
                   search_out, llm_calls, sent, all_bad, prev_bad, all_full,
                   all_valid, slept, result, raised, status>>

NextConc == \E r \in Reqs : ConcSearch(r) \/ ConcAttempt(r) \/ ConcSleep(r)

SpecConc == InitConc /\ [][NextConc]_vars

\* the content request r got from its own search
OwnContent(r) == search_and_extract(search_out[r])

\* what request r returns, as a function of its input, its search result
\* and the last answer to its own completion calls
OwnOutcome(r) ==
    IF response[r] = NoCompletion
    THEN /\ OwnContent(r) = ""
         /\ llm_calls[r] = 0
         /\ result[r] = create_fallback_response(ConcModel(r))
    ELSE IF Succeeded(extract_asset_info(response[r], lax_str))
    THEN /\ result[r] = extract_asset_info(response[r], lax_str).value
         /\ result[r].model_number = ConcModel(r)
         /\ llm_calls[r] <= max_retries
    ELSE /\ llm_calls[r] = max_retries
         /\ result[r] = create_fallback_response(ConcModel(r))

\* the part of the state that belongs to request r
OwnState(r) ==
    <<pc[r], asset_input[r], search_out[r], search_calls[r],
      search_content[r], attempt[r], llm_calls[r], sent[r], response[r],
      sleeps[r], result[r]>>

\* C18: under every interleaving of the invocations each request keeps its
\* own search content (the content of its own search, the only one it sends
\* to the completion provider) and its own attempt counter (one ahead of
\* its own calls while it is about to call, equal to them while it sleeps);
\* a step of one request changes nothing that belongs to another; and the
\* record a request returns and the number of its completion calls are
\* those its own input, search result and completions give.
C18_RequestsIndependent ==
    /\ [](\A r \in Reqs :
            /\ pc[r] # "searching" => search_content[r] = OwnContent(r)
            /\ sent[r] \subseteq {OwnContent(r)}
            /\ pc[r] = "extracting" =>
                   attempt[r] = llm_calls[r] + 1 /\ sleeps[r] = llm_calls[r]
            /\ pc[r] = "sleeping" =>
                   attempt[r] = llm_calls[r] /\ attempt[r] < max_retries
            /\ pc[r] \in {"searching", "extracting", "sleeping", "done"}
            /\ pc[r] = "done" => OwnOutcome(r))
    /\ [][\A r \in Reqs : pc'[r] = pc[r] => OwnState(r)' = OwnState(r)]_vars

\* C18 witness: two requests in flight, the first asleep after its third
\* failed call, the second about to make its first call, each with its own
\* content
C18_Witness ==
    /\ pc[1] = "sleeping"
    /\ attempt[1] = 3
    /\ llm_calls[1] = 3
    /\ pc[2] = "extracting"
    /\ attempt[2] = 1
    /\ llm_calls[2] = 0
    /\ search_content[1] # ""
    /\ search_content[2] # ""
    /\ search_content[1] # search_content[2]

\* the search provider returned at least one result
SomeResult == search_out.kind = "hits" /\ Len(search_out.hits) >= 1

Searched == pc \in {"extracting", "sleeping", "done", "responded"}

\* C21: process_asset calls the search provider once, before any completion
\* call, and never again: while the attempts run, the search count, the
\* search result and the aggregated content stay as they are, so every
\* completion call is sent the one content of that search.  When the search
\* returned at least one result the content is non-empty, even with every
\* title and snippet empty, and the completion provider is called.
C21_SearchOnceContentKept ==
    /\ [](/\ search_calls <= 1
          /\ llm_calls >= 1 => search_calls = 1
          /\ Searched => search_calls = 1
          /\ Searched => search_content = search_and_extract(search_out)
          /\ sent = IF llm_calls >= 1 THEN {search_content} ELSE {})
    /\ []((Searched /\ SomeResult) =>
             /\ search_content # ""
             /\ pc = "extracting" \/ llm_calls >= 1)
    /\ [][Searched =>
             /\ search_calls' = search_calls
             /\ search_out' = search_out
             /\ search_content' = search_content]_vars

\* C21 witness: two results with empty or absent titles and snippets, and
\* max_retries completion calls all sent the same non-empty content
C21_Witness ==
    /\ pc = "done"
    /\ search_calls = 1
    /\ Len(search_out.hits) = 2
    /\ \A i \in 1..2 : /\ Get(search_out.hits[i].title, Str("")) = Str("")
                       /\ Get(search_out.hits[i].body, Str("")) = Str("")
    /\ search_content # ""
    /\ llm_calls = max_retries
    /\ sent = {search_content}

====
